---- MODULE Spec2Model ----
(***************************************************************************)
(* Model of the leakage accounting engine of fix_gtdb_mg:                  *)
(*   src/src/pairwise_leakage.rs  Genes, NormGenes, Leakage                *)
(*   src/src/bin/mask_genes.rs    Leaks, Species, GeneLeaks, the passes    *)
(*   src/src/common.rs            Sam, sam_to_ids, Args                    *)
(*                                                                         *)
(* A Rust Vec is a TLA+ sequence: the slot of gene id g is data[g + 1].    *)
(* A panic (failed index, assert!, expect, unwrap) aborts the process; it  *)
(* is modelled as a result value with panic = TRUE.                        *)
(***************************************************************************)
EXTENDS Integers, Sequences, FiniteSets, TLC

\* ------------------------------------------------------------------ bounds
\* Number of increment / merge_from calls in a run of the counter machine.
MaxOps == 4

\* Longest Genes vector and largest slot value handed to
\* NormGenes::merge_normalized_from_counts.
MaxLen == 2
MaxCount == 2

\* Number of count_correct / count_incorrect calls on the taxon ledger.
MaxLedgerOps == 3

\* Number of records in the alignment record stream.
MaxRecs == 2

\* Number of counted records filed into the pairwise table before it is
\* saved.
MaxFiled == 3

\* Gene ids (usize) used by the modelled calls and records.
GeneIds == {0, 1, 2}
\* Taxon ids (usize)
Taxa == {1, 2}

\* ------------------------------------------------------- Vec<T> helpers
\* Vec::resize_with(n, || fill): grows with fill, and TRUNCATES when n < len.
Resize(data, n, fill) ==
    [i \in 1..n |-> IF i <= Len(data) THEN data[i] ELSE fill]

Max(x, y) == IF x >= y THEN x ELSE y

\* ------------------------------------------------------------- Genes
\* Genes::EMPTY, the unset sentinel.
EMPTY == -1

\* Option<usize> and the outcome of a call that may panic.
None == [panic |-> FALSE, some |-> FALSE, val |-> 0]
Some(v) == [panic |-> FALSE, some |-> TRUE, val |-> v]
PanicOpt == [panic |-> TRUE, some |-> FALSE, val |-> 0]

\* Plausible bug: new slots are filled with 0 instead of EMPTY.
Genes_increment_zero_fill(data, gene) ==
    LET d1 == IF gene >= Len(data) THEN Resize(data, gene + 1, 0) ELSE data
        d2 == IF d1[gene + 1] = EMPTY THEN [d1 EXCEPT ![gene + 1] = 0] ELSE d1
    IN  [d2 EXCEPT ![gene + 1] = @ + 1]

\* Genes::increment
Genes_increment(data, gene) ==
    LET d1 == IF gene >= Len(data) THEN Resize(data, gene + 1, EMPTY) ELSE data
        d2 == IF d1[gene + 1] = EMPTY THEN [d1 EXCEPT ![gene + 1] = 0] ELSE d1
    IN  [d2 EXCEPT ![gene + 1] = @ + 1]

\* Genes::get: self.data[gene] is an unchecked index, it panics when
\* gene >= self.data.len().
Genes_get(data, gene) ==
    IF gene >= Len(data) THEN PanicOpt
    ELSE IF data[gene + 1] = EMPTY THEN None
    ELSE Some(data[gene + 1])

\* Genes::total: fold(0, |acc, x| acc + max(*x, 0))
RECURSIVE Genes_total_from(_, _)
Genes_total_from(data, i) ==
    IF i > Len(data) THEN 0
    ELSE Max(data[i], 0) + Genes_total_from(data, i + 1)

Genes_total(data) == Genes_total_from(data, 1)

\* Result of Genes::merge_from: the new self.data, or a failed assert!.
MergeOk(d) == [panic |-> FALSE, data |-> d]
MergePanic == [panic |-> TRUE, data |-> <<>>]

\* One iteration of the loop of Genes::merge_from for slot index i of other.
RECURSIVE Genes_merge_loop(_, _, _)
Genes_merge_loop(self, other, i) ==
    IF i > Len(other) THEN MergeOk(self)
    ELSE IF other[i] = EMPTY THEN Genes_merge_loop(self, other, i + 1)
    ELSE IF ~(other[i] > 0) THEN MergePanic
    ELSE LET d1 == IF i - 1 >= Len(self) THEN Resize(self, i, EMPTY) ELSE self
             d2 == IF d1[i] = EMPTY THEN [d1 EXCEPT ![i] = 0] ELSE d1
             d3 == [d2 EXCEPT ![i] = @ + other[i]]
         IN  IF ~(d3[i] > 0) THEN MergePanic
             ELSE Genes_merge_loop(d3, other, i + 1)

\* Plausible bug: the merged-in count overwrites the slot instead of adding.
Genes_merge_from_overwrite(self, other) ==
    MergeOk([i \in 1..Max(Len(self), Len(other)) |->
        IF i <= Len(other) /\ other[i] # EMPTY THEN other[i]
        ELSE IF i <= Len(self) THEN self[i] ELSE EMPTY])

\* Plausible bug: an EMPTY slot of self is not set to 0 before the addition.
RECURSIVE Genes_merge_loop_no_init(_, _, _)
Genes_merge_loop_no_init(self, other, i) ==
    IF i > Len(other) THEN MergeOk(self)
    ELSE IF other[i] = EMPTY THEN Genes_merge_loop_no_init(self, other, i + 1)
    ELSE IF ~(other[i] > 0) THEN MergePanic
    ELSE LET d1 == IF i - 1 >= Len(self) THEN Resize(self, i, EMPTY) ELSE self
             d3 == [d1 EXCEPT ![i] = @ + other[i]]
         IN  IF ~(d3[i] > 0) THEN MergePanic
             ELSE Genes_merge_loop_no_init(d3, other, i + 1)

Genes_merge_from_no_init(self, other) == Genes_merge_loop_no_init(self, other, 1)

\* Genes::merge_from
Genes_merge_from(self, other) == Genes_merge_loop(self, other, 1)

\* --------------------------------------------------------------- f64
\* An f64 is [k, v]: k = "fin" with v the value times Scale, or "inf",
\* "ninf", "nan" with v = 0. Scale is a multiple of every divisor the model
\* divides by, so every finite quotient is exact; rounding is not modelled.
RECURSIVE Factorial(_)
Factorial(n) == IF n <= 1 THEN 1 ELSE n * Factorial(n - 1)

\* The largest total the model divides by.
MaxDivisor == Max(Max(MaxCount, MaxRecs), MaxFiled)

Scale == Factorial(MaxDivisor)

Fin(v) == [k |-> "fin", v |-> v]
Inf == [k |-> "inf", v |-> 0]
NegInf == [k |-> "ninf", v |-> 0]
NaN == [k |-> "nan", v |-> 0]

\* n as f64
F(n) == Fin(n * Scale)

Abs(n) == IF n < 0 THEN -n ELSE n

\* a as f64 / b as f64 for integers a, b (IEEE 754: x/0 is an infinity,
\* 0/0 is NaN).
FDivInt(a, b) ==
    IF b = 0 THEN (IF a > 0 THEN Inf ELSE IF a < 0 THEN NegInf ELSE NaN)
    ELSE LET q == (Abs(a) * Scale) \div Abs(b)
         IN  Fin(IF (a < 0) = (b < 0) THEN q ELSE -q)

\* x + y
FAdd(x, y) ==
    IF x.k = "nan" \/ y.k = "nan" THEN NaN
    ELSE IF x.k = "fin" /\ y.k = "fin" THEN Fin(x.v + y.v)
    ELSE IF x.k = "fin" THEN y
    ELSE IF y.k = "fin" THEN x
    ELSE IF x.k = y.k THEN x
    ELSE NaN

\* x > y, x < y, x >= y, x == y: every comparison with NaN is false.
FRank(x) == IF x.k = "ninf" THEN -1 ELSE IF x.k = "inf" THEN 1 ELSE 0
FGt(x, y) ==
    /\ x.k # "nan"
    /\ y.k # "nan"
    /\ \/ FRank(x) > FRank(y)
       \/ x.k = "fin" /\ y.k = "fin" /\ x.v > y.v
FLt(x, y) == FGt(y, x)
FEq(x, y) == x.k # "nan" /\ y.k # "nan" /\ x = y
FGe(x, y) == FGt(x, y) \/ FEq(x, y)
IsFinite(x) == x.k = "fin"

\* --------------------------------------------------------- NormGenes
\* NormGenes::EMPTY
NORM_EMPTY == F(-1)

NormOk(d) == [panic |-> FALSE, data |-> d]
NormPanic == [panic |-> TRUE, data |-> <<>>]

\* The loop of NormGenes::merge_normalized_from_counts, from slot index i of
\* other. normalizer.data[gene] is an unchecked index.
RECURSIVE NormGenes_merge_loop(_, _, _, _)
NormGenes_merge_loop(self, other, normalizer, i) ==
    IF i > Len(other) THEN NormOk(self)
    ELSE IF other[i] = EMPTY
    THEN NormGenes_merge_loop(self, other, normalizer, i + 1)
    ELSE LET d1 == IF i - 1 >= Len(self) THEN Resize(self, i, NORM_EMPTY) ELSE self
             d2 == IF FEq(d1[i], NORM_EMPTY) THEN [d1 EXCEPT ![i] = F(0)] ELSE d1
         IN  IF i > Len(normalizer) THEN NormPanic
             ELSE LET res == FDivInt(other[i], normalizer[i])
                  IN  IF ~FGt(res, F(0)) THEN NormPanic
                      ELSE NormGenes_merge_loop(
                               [d2 EXCEPT ![i] = FAdd(@, res)],
                               other, normalizer, i + 1)

\* NormGenes::merge_normalized_from_counts
NormGenes_merge_normalized_from_counts(self, other, normalizer) ==
    NormGenes_merge_loop(self, other, normalizer, 1)

\* The fold of NormGenes::total; *x == f64::NAN is false for every x.
RECURSIVE NormGenes_total_fold(_, _, _)
NormGenes_total_fold(data, i, acc) ==
    IF i > Len(data) THEN acc
    ELSE NormGenes_total_fold(data, i + 1,
             FAdd(acc, IF FLt(data[i], F(0)) \/ FEq(data[i], NaN)
                       THEN F(0) ELSE data[i]))

TotalOk(x) == [panic |-> FALSE, val |-> x]
TotalPanic == [panic |-> TRUE, val |-> F(0)]

\* NormGenes::total, with its assert!(res >= 0.0)
NormGenes_total(data) ==
    LET res == NormGenes_total_fold(data, 1, F(0))
    IN  IF FGe(res, F(0)) THEN TotalOk(res) ELSE TotalPanic

\* ---------------------------------------------- Leaks, Species, GeneLeaks
\* Option<Leaks>: None, or Some(Leaks {correct, incoming, outgoing}).
NoLeaks == [some |-> FALSE, correct |-> F(0), incoming |-> F(0), outgoing |-> F(0)]
\* Some(Leaks::default())
DefaultLeaks == [some |-> TRUE, correct |-> F(0), incoming |-> F(0), outgoing |-> F(0)]

\* Species::get: the slot of geneid, created when it is out of range or None.
\* resize_with(geneid + 1) is also run for a None slot inside the vector,
\* where it cuts the vector down to geneid + 1 slots.
Species_get(leaks, geneid) ==
    IF geneid >= Len(leaks) \/ ~leaks[geneid + 1].some
    THEN [Resize(leaks, geneid + 1, NoLeaks) EXCEPT ![geneid + 1] = DefaultLeaks]
    ELSE leaks

\* Species::add_correct
Species_add_correct(leaks, geneid, increment) ==
    [Species_get(leaks, geneid) EXCEPT
        ![geneid + 1].correct = FAdd(@, increment)]

\* Species::add_incorrect
Species_add_incorrect(leaks, geneid, incoming, increment) ==
    IF incoming
    THEN [Species_get(leaks, geneid) EXCEPT
             ![geneid + 1].incoming = FAdd(@, increment)]
    ELSE [Species_get(leaks, geneid) EXCEPT
             ![geneid + 1].outgoing = FAdd(@, increment)]

\* Species::num_genes
Species_num_genes(leaks) ==
    Cardinality({i \in 1..Len(leaks) : leaks[i].some})

\* Plausible bug: a None slot is counted as leaked on.
Species_num_leaked_on_genes_none_counts(leaks, threshold) ==
    Cardinality({i \in 1..Len(leaks) :
        ~leaks[i].some \/ FGt(leaks[i].incoming, threshold)})

\* Species::num_leaked_on_genes
Species_num_leaked_on_genes(leaks, threshold) ==
    Cardinality({i \in 1..Len(leaks) :
        leaks[i].some /\ FGt(leaks[i].incoming, threshold)})

\* Species::total_incoming_leaks: the fold over the filtered slots.
RECURSIVE Species_total_incoming_fold(_, _, _, _)
Species_total_incoming_fold(leaks, threshold, i, acc) ==
    IF i > Len(leaks) THEN acc
    ELSE Species_total_incoming_fold(leaks, threshold, i + 1,
             IF leaks[i].some /\ FGt(leaks[i].incoming, threshold)
             THEN FAdd(acc, leaks[i].incoming) ELSE acc)

Species_total_incoming_leaks(leaks, threshold) ==
    Species_total_incoming_fold(leaks, threshold, 1, F(0))

\* usize subtraction: an underflow panics (debug build) or wraps (release).
UsizeSub(a, b) == [underflow |-> a < b, val |-> IF a >= b THEN a - b ELSE 0]

\* Species::num_good_genes
Species_num_good_genes(leaks, threshold) ==
    UsizeSub(Species_num_genes(leaks), Species_num_leaked_on_genes(leaks, threshold))

\* HashMap::entry(species).or_insert(Species::new(species)): the ledger is a
\* function from the taxa present to their leaks vectors.
EntryOrNew(species, taxon) ==
    IF taxon \in DOMAIN species THEN species[taxon] ELSE <<>>

Put(map, key, value) ==
    [k \in DOMAIN map \cup {key} |-> IF k = key THEN value ELSE map[k]]

\* GeneLeaks::count_correct
GeneLeaks_count_correct(species, taxon, gene, increment) ==
    Put(species, taxon,
        Species_add_correct(EntryOrNew(species, taxon), gene, increment))

\* GeneLeaks::count_incorrect
GeneLeaks_count_incorrect(species, taxon, gene, incoming, increment) ==
    Put(species, taxon,
        Species_add_incorrect(EntryOrNew(species, taxon), gene, incoming, increment))

\* isize::MAX; TLC's integers are 32 bits wide, only its order matters here.
IsizeMax == 2147483647

\* x as isize for an f64: truncation toward zero, saturating, NaN to 0.
F64AsIsize(x) ==
    IF x.k = "nan" THEN 0
    ELSE IF x.k = "inf" THEN IsizeMax
    ELSE IF x.k = "ninf" THEN -IsizeMax - 1
    ELSE IF x.v >= 0 THEN x.v \div Scale ELSE -((-x.v) \div Scale)

\* The sort key of GeneLeaks::top_incoming.
TopIncomingKey(leaks) ==
    << -Species_num_leaked_on_genes(leaks, F(0)),
       -F64AsIsize(Species_total_incoming_leaks(leaks, F(0))) >>

\* Ord for the key tuple (isize, isize).
KeyLe(a, b) == a[1] < b[1] \/ (a[1] = b[1] /\ a[2] <= b[2])

\* Insertion of x behind every element whose key is not larger: what a
\* stable sort does with equal keys.
RECURSIVE InsertStable(_, _, _)
InsertStable(sorted, x, species) ==
    IF sorted = <<>> THEN <<x>>
    ELSE IF KeyLe(TopIncomingKey(species[sorted[1]]), TopIncomingKey(species[x]))
    THEN <<sorted[1]>> \o InsertStable(Tail(sorted), x, species)
    ELSE <<x>> \o sorted

\* slice::sort_by_key (stable) of the taxa in the order iter.
RECURSIVE SortByKey(_, _, _)
SortByKey(iter, i, species) ==
    IF i = 0 THEN <<>>
    ELSE InsertStable(SortByKey(iter, i - 1, species), iter[i], species)

\* GeneLeaks::top_incoming, for the order iter in which HashMap::iter
\* yields the taxa.
GeneLeaks_top_incoming(species, iter) == SortByKey(iter, Len(iter), species)

\* The orders in which a HashMap with the keys S may be iterated.
IterOrders(S) ==
    {f \in [1..Cardinality(S) -> S] : \A i, j \in DOMAIN f : i # j => f[i] # f[j]}

\* ------------------------------------------------- alignment records
\* Args::min_mapq, its default value.
MinMapq == 4

\* Gene ids carried by the records of the stream.
RecGenes == {0, 1}

\* One item of sam_file_iterator: Err (Sam::from_line failed), or Ok(Sam)
\* with qname "<qt>_<qg>" and rname "<rt>_<rg>", or rname "*" (unaligned).
MalformedRec ==
    [ok |-> FALSE, aligned |-> FALSE, qt |-> 0, qg |-> 0, rt |-> 0, rg |-> 0,
     mapq |-> 0]
AlignedRecs ==
    {[ok |-> TRUE, aligned |-> TRUE, qt |-> qt, qg |-> qg, rt |-> rt, rg |-> rg,
      mapq |-> m] :
        qt \in Taxa, qg \in RecGenes, rt \in Taxa, rg \in RecGenes,
        m \in {MinMapq - 1, MinMapq}}
UnalignedRecs ==
    {[ok |-> TRUE, aligned |-> FALSE, qt |-> qt, qg |-> qg, rt |-> 0, rg |-> 0,
      mapq |-> MinMapq] : qt \in Taxa, qg \in RecGenes}
Records == AlignedRecs \cup UnalignedRecs \cup {MalformedRec}

\* Sam::is_aligned
Sam_is_aligned(sam) == sam.aligned

\* Plausible bug: the threshold itself is filtered too (<= for <).
Skipped_at_threshold(sam) == ~Sam_is_aligned(sam) \/ sam.mapq <= MinMapq

\* !sam.is_aligned() || sam.mapq < args.min_mapq
Skipped(sam) == ~Sam_is_aligned(sam) \/ sam.mapq < MinMapq

\* let correct = query_tid == ref_tid && query_gid == ref_gid
Correct(sam) == sam.qt = sam.rt /\ sam.qg = sam.rg

\* ------------------------------------------------- Leakage::from_sam
\* res.map.entry(key).or_default()
GenesOrDefault(map, key) == IF key \in DOMAIN map THEN map[key] ELSE <<>>

\* Plausible bug: the slot of the query gene is incremented.
FromSamCount_query_gene(map, sam) ==
    Put(map, <<sam.qt, sam.rt>>,
        Genes_increment(GenesOrDefault(map, <<sam.qt, sam.rt>>), sam.qg))

\* The body of the loop of Leakage::from_sam for a record that is counted:
\* the key is (query taxon, reference taxon), the slot the reference gene.
\* sam_to_ids computes no flag that the loop reads: a correct record is
\* filed like any other.
FromSamCount(map, sam) ==
    Put(map, <<sam.qt, sam.rt>>,
        Genes_increment(GenesOrDefault(map, <<sam.qt, sam.rt>>), sam.rg))

\* One iteration of the loop of Leakage::from_sam: sam_res.expect("Invalid
\* sam") panics on an Err item.
FromSamStep(st, item) ==
    IF st.pc # "run" THEN st
    ELSE IF ~item.ok THEN [st EXCEPT !.pc = "panic"]
    ELSE IF Skipped(item) THEN st
    ELSE [st EXCEPT !.map = FromSamCount(st.map, item)]

\* ------------------------------------------------- get_species_total
\* The entry update of get_species_total; like Species::get it runs
\* resize_with(query_gid + 1) for a None slot inside the vector.
SpeciesTotalCount(entry, gid) ==
    LET e1 == IF gid >= Len(entry) \/ ~entry[gid + 1].some
              THEN [Resize(entry, gid + 1, None) EXCEPT ![gid + 1] = Some(0)]
              ELSE entry
    IN  [e1 EXCEPT ![gid + 1] = Some(@.val + 1)]

\* One iteration of the loop of get_species_total: while let Some(Ok(sam))
\* leaves the loop at an Err item.
SpeciesTotalStep(st, item) ==
    IF st.pc # "run" THEN st
    ELSE IF ~item.ok THEN [st EXCEPT !.pc = "done"]
    ELSE IF Skipped(item) THEN st
    ELSE [st EXCEPT !.map =
             Put(st.map, item.qt,
                 SpeciesTotalCount(GenesOrDefault(st.map, item.qt), item.qg))]

\* ---------------------------------------------------- get_gene_leaks
\* The match of get_gene_leaks on a counted record.
GeneLeaksCount(sp, sam) ==
    IF Correct(sam)
    THEN GeneLeaks_count_correct(sp, sam.qt, sam.qg, F(1))
    ELSE GeneLeaks_count_incorrect(
             GeneLeaks_count_incorrect(sp, sam.rt, sam.rg, TRUE, F(1)),
             sam.qt, sam.qg, FALSE, F(1))

\* One iteration of the loop of get_gene_leaks.
GeneLeaksStep(st, item) ==
    IF st.pc # "run" THEN st
    ELSE IF ~item.ok THEN [st EXCEPT !.pc = "done"]
    ELSE IF Skipped(item) THEN st
    ELSE [st EXCEPT !.map = GeneLeaksCount(st.map, item)]

\* ----------------------------------------- get_normalized_gene_leaks
\* qt[gid].unwrap() on total_counts.get(&tid): 0 when the taxon is missing,
\* a panic when the index is out of range or the slot is None.
LookupTotal(totals, tid, gid) ==
    IF tid \notin DOMAIN totals THEN Some(0)
    ELSE IF gid >= Len(totals[tid]) THEN PanicOpt
    ELSE IF ~totals[tid][gid + 1].some THEN PanicOpt
    ELSE totals[tid][gid + 1]

\* One iteration of the loop of get_normalized_gene_leaks. ref_total is
\* matched on qt, the vector of the QUERY taxon, indexed by ref_gid.
NormalizedStep(st, totals, item) ==
    IF st.pc # "run" THEN st
    ELSE IF ~item.ok THEN [st EXCEPT !.pc = "done"]
    ELSE IF Skipped(item) THEN st
    ELSE LET query_total == LookupTotal(totals, item.qt, item.qg)
             ref_total == LookupTotal(totals, item.qt, item.rg)
         IN  IF query_total.panic \/ ref_total.panic
             THEN [st EXCEPT !.pc = "panic"]
             ELSE IF Correct(item)
             THEN [st EXCEPT !.map =
                      GeneLeaks_count_correct(st.map, item.qt, item.qg,
                          FDivInt(1, query_total.val))]
             ELSE [st EXCEPT !.map =
                      GeneLeaks_count_incorrect(
                          GeneLeaks_count_incorrect(st.map, item.rt, item.rg, TRUE,
                              FDivInt(1, query_total.val)),
                          item.qt, item.qg, FALSE, FDivInt(1, ref_total.val))]

\* ------------------------------- total_outgoing, normalize_incoming
\* The outcome of a loop over the table: the result map, or a panic.
TableOk(m) == [panic |-> FALSE, map |-> m]
TablePanic == [panic |-> TRUE, map |-> <<>>]

\* Plausible bug: the accumulator is keyed by pair.to.
TotalOutgoingStep_by_to(result, pair, genes) ==
    IF result.panic THEN result
    ELSE LET r == Genes_merge_from(GenesOrDefault(result.map, pair[2]), genes)
         IN  IF r.panic THEN TablePanic
             ELSE TableOk(Put(result.map, pair[2], r.data))

\* One iteration of the loop of Leakage::total_outgoing: the counter of the
\* pair (from, to) is merged into result.entry(from).or_default().
TotalOutgoingStep(result, pair, genes) ==
    IF result.panic THEN result
    ELSE LET r == Genes_merge_from(GenesOrDefault(result.map, pair[1]), genes)
         IN  IF r.panic THEN TablePanic
             ELSE TableOk(Put(result.map, pair[1], r.data))

RECURSIVE TotalOutgoingLoop(_, _, _, _)
TotalOutgoingLoop(result, map, iter, i) ==
    IF i > Len(iter) THEN result
    ELSE TotalOutgoingLoop(TotalOutgoingStep(result, iter[i], map[iter[i]]),
                           map, iter, i + 1)

\* Leakage::total_outgoing, for the order iter in which &self.map yields its
\* entries.
Leakage_total_outgoing(map, iter) == TotalOutgoingLoop(TableOk(<<>>), map, iter, 1)

\* result.entry(to).or_default() for a HashMap<TinyTaxID, NormGenes>
NormGenesOrDefault(map, key) == IF key \in DOMAIN map THEN map[key] ELSE <<>>

\* Plausible bug: the normalizer is looked up under pair.to.
NormalizeStep_normalizer_by_to(result, total_out, pair, genes) ==
    IF result.panic THEN result
    ELSE IF pair[2] \notin DOMAIN total_out THEN TablePanic
    ELSE LET r == NormGenes_merge_normalized_from_counts(
                      NormGenesOrDefault(result.map, pair[2]), genes,
                      total_out[pair[2]])
         IN  IF r.panic THEN TablePanic
             ELSE TableOk(Put(result.map, pair[2], r.data))

\* One iteration of the loop of Leakage::normalize_incoming:
\* total_out[&pair.from] panics when the key is missing.
NormalizeStep(result, total_out, pair, genes) ==
    IF result.panic THEN result
    ELSE IF pair[1] \notin DOMAIN total_out THEN TablePanic
    ELSE LET r == NormGenes_merge_normalized_from_counts(
                      NormGenesOrDefault(result.map, pair[2]), genes,
                      total_out[pair[1]])
         IN  IF r.panic THEN TablePanic
             ELSE TableOk(Put(result.map, pair[2], r.data))

RECURSIVE NormalizeLoop(_, _, _, _, _)
NormalizeLoop(result, total_out, map, iter, i) ==
    IF i > Len(iter) THEN result
    ELSE NormalizeLoop(NormalizeStep(result, total_out, iter[i], map[iter[i]]),
                       total_out, map, iter, i + 1)

\* Leakage::normalize_incoming. self.map is not modified between the loop of
\* total_outgoing and the loop here, so both see the same order iter.
Leakage_normalize_incoming(map, iter) ==
    LET total_out == Leakage_total_outgoing(map, iter)
    IN  IF total_out.panic THEN TablePanic
        ELSE NormalizeLoop(TableOk(<<>>), total_out.map, map, iter, 1)

\* ------------------------------------------ the persisted table format
\* Text is a sequence of one-character strings.
DigitChars == <<"0", "1", "2", "3", "4", "5", "6", "7", "8", "9">>
TAB == "\t"

\* format!("{}", n) for an integer n
RECURSIVE FormatNat(_)
FormatNat(n) ==
    IF n < 10 THEN <<DigitChars[n + 1]>>
    ELSE FormatNat(n \div 10) \o <<DigitChars[(n % 10) + 1]>>

FormatInt(n) == IF n < 0 THEN <<"-">> \o FormatNat(-n) ELSE FormatNat(n)

\* itertools::join(tokens, "\t")
RECURSIVE JoinTab(_)
JoinTab(tokens) ==
    IF tokens = <<>> THEN <<>>
    ELSE IF Len(tokens) = 1 THEN tokens[1]
    ELSE tokens[1] \o <<TAB>> \o JoinTab(Tail(tokens))

\* impl Display for Genes: write!(f, "{}\t{}", self.total(), s) with s the
\* join of self.data.iter().skip(1): the slot of gene 0 is not written.
Genes_fmt(data) ==
    LET rest == IF data = <<>> THEN <<>> ELSE Tail(data)
    IN  FormatInt(Genes_total(data)) \o <<TAB>>
        \o JoinTab([i \in 1..Len(rest) |-> FormatInt(rest[i])])

\* println!("{}\t{}\t{}", l.from, l.to, g)
TableLine(from, to, data) ==
    FormatInt(from) \o <<TAB>> \o FormatInt(to) \o <<TAB>> \o Genes_fmt(data)

\* line.split("\t")
RECURSIVE SplitTab(_, _, _)
SplitTab(line, i, cur) ==
    IF i > Len(line) THEN <<cur>>
    ELSE IF line[i] = TAB THEN <<cur>> \o SplitTab(line, i + 1, <<>>)
    ELSE SplitTab(line, i + 1, Append(cur, line[i]))

\* str::parse::<isize>: an optional sign and at least one digit.
IsDigit(c) == \E d \in 1..10 : DigitChars[d] = c
DigitValue(c) == (CHOOSE d \in 1..10 : DigitChars[d] = c) - 1

RECURSIVE ParseNat(_, _, _)
ParseNat(tok, i, acc) ==
    IF i > Len(tok) THEN acc
    ELSE ParseNat(tok, i + 1, 10 * acc + DigitValue(tok[i]))

ParseInt(tok) ==
    LET signed == tok # <<>> /\ tok[1] \in {"-", "+"}
        digits == IF signed THEN Tail(tok) ELSE tok
    IN  IF digits = <<>> \/ \E i \in 1..Len(digits) : ~IsDigit(digits[i])
        THEN [ok |-> FALSE, val |-> 0]
        ELSE [ok |-> TRUE,
              val |-> IF signed /\ tok[1] = "-"
                      THEN -ParseNat(digits, 1, 0) ELSE ParseNat(digits, 1, 0)]

\* &tokens[3..]: the fields behind from, to and the ignored third field.
LoadSlots(tokens) == SubSeq(tokens, 4, Len(tokens))

\* The body of the loop of Leakage::load for one line: every token is
\* parsed (expect), tokens[0], tokens[1] and &tokens[3..] are unchecked.
LoadLine(st, line) ==
    IF st.pc # "run" THEN st
    ELSE LET parsed == [i \in 1..Len(SplitTab(line, 1, <<>>)) |->
                            ParseInt(SplitTab(line, 1, <<>>)[i])]
             tokens == [i \in 1..Len(parsed) |-> parsed[i].val]
         IN  IF \E i \in 1..Len(parsed) : ~parsed[i].ok
             THEN [st EXCEPT !.pc = "panic"]
             ELSE IF Len(tokens) < 3 THEN [st EXCEPT !.pc = "panic"]
             ELSE IF \E i \in 1..Len(LoadSlots(tokens)) : LoadSlots(tokens)[i] = 0
             THEN [st EXCEPT !.pc = "panic"]
             ELSE [st EXCEPT !.map =
                      Put(st.map, <<tokens[1], tokens[2]>>, LoadSlots(tokens))]

RECURSIVE LoadLoop(_, _, _)
LoadLoop(st, lines, i) ==
    IF i > Len(lines) THEN st
    ELSE LoadLoop(LoadLine(st, lines[i]), lines, i + 1)

\* Leakage::load over the lines of the file
Leakage_load(lines) ==
    LET st == LoadLoop([pc |-> "run", map |-> <<>>], lines, 1)
    IN  IF st.pc = "run" THEN [st EXCEPT !.pc = "done"] ELSE st

\* ------------------------------------------------------------ state
VARIABLES
    counters,   \* three Genes values, [1..3 -> Vec<isize>]
    incs,       \* per counter and gene: the number of increment calls made
    merged,     \* per counter: merge_from was applied to it
    nops,       \* calls made so far
    last        \* the last call and what it returned

VARIABLES
    nOther,       \* other: &Genes handed to merge_normalized_from_counts
    nNormalizer,  \* normalizer: &Genes
    nRes,         \* the NormGenes after the call, or its panic
    nTotal,       \* what NormGenes::total returned
    nPc           \* "start", "merged", "done", "aborted"

VARIABLES
    species,    \* GeneLeaks::species, taxon -> Species::leaks
    lops,       \* count_correct / count_incorrect calls made so far
    ranking,    \* the Vec returned by top_incoming while it is borrowed
    touched     \* per taxon: the gene ids passed to add_correct / add_incorrect

VARIABLES
    input,      \* the items sam_file_iterator has yielded so far
    eof,        \* the stream has ended
    leak,       \* Leakage::from_sam: its loop state and res.map
    tot,        \* get_species_total: its loop state and result
    raw,        \* get_gene_leaks: its loop state and result.species
    nrm,        \* get_normalized_gene_leaks: its loop state and result.species
    npos        \* items the second pass of mask_genes has consumed

VARIABLES
    table,      \* Leakage::map of the process that builds and saves the table
    filed,      \* counted records filed into it so far
    saved,      \* the lines of the saved file, once written
    loaded,     \* Leakage::load of that file: its state and result.map
    outgoing,   \* what total_outgoing returned for the table, while it is held
    normalized  \* what normalize_incoming returned for the table, while held

varsGenes == <<counters, incs, merged, nops, last>>
varsNorm == <<nOther, nNormalizer, nRes, nTotal, nPc>>
varsLedger == <<species, lops, ranking, touched>>
varsSam == <<input, eof, leak, tot, raw, nrm, npos>>
varsTable == <<table, filed, saved, loaded, outgoing, normalized>>
vars == <<varsGenes, varsNorm, varsLedger, varsSam, varsTable>>

othersGenes == <<varsNorm, varsLedger, varsSam, varsTable>>
othersNorm == <<varsGenes, varsLedger, varsSam, varsTable>>
othersLedger == <<varsGenes, varsNorm, varsSam, varsTable>>
othersSam == <<varsGenes, varsNorm, varsLedger, varsTable>>
othersTable == <<varsGenes, varsNorm, varsLedger, varsSam>>

CounterIds == 1..3

NoCall == [kind |-> "none", dst |-> 0, src |-> 0, gene |-> 0, res |-> None,
           before |-> 0, added |-> 0]

\* Genes::default() three times.
GenesStart ==
    /\ counters = [c \in CounterIds |-> <<>>]
    /\ incs = [c \in CounterIds |-> [g \in GeneIds |-> 0]]
    /\ merged = [c \in CounterIds |-> FALSE]
    /\ nops = 0
    /\ last = NoCall

\* NormGenes::default(), before any argument is chosen.
NormStart ==
    /\ nOther = <<>>
    /\ nNormalizer = <<>>
    /\ nRes = NormOk(<<>>)
    /\ nTotal = TotalOk(F(0))
    /\ nPc = "start"

NoRanking == [done |-> FALSE, iter |-> <<>>, order |-> <<>>]

\* GeneLeaks::default()
LedgerStart ==
    /\ species = <<>>
    /\ lops = 0
    /\ ranking = NoRanking
    /\ touched = [t \in Taxa |-> {}]

\* The loops before their first item; every result map is empty.
Running == [pc |-> "run", map |-> <<>>]

SamStart ==
    /\ input = <<>>
    /\ eof = FALSE
    /\ leak = Running
    /\ tot = Running
    /\ raw = Running
    /\ nrm = Running
    /\ npos = 0

\* No result of total_outgoing / normalize_incoming is held.
NotCalled == [done |-> FALSE, res |-> TableOk(<<>>)]

\* Leakage::default(); nothing saved, nothing loaded.
TableStart ==
    /\ table = <<>>
    /\ filed = 0
    /\ saved = [written |-> FALSE, lines |-> <<>>]
    /\ loaded = [pc |-> "idle", map |-> <<>>]
    /\ outgoing = NotCalled
    /\ normalized = NotCalled

InitGenes == GenesStart /\ NormStart /\ LedgerStart /\ SamStart /\ TableStart

\* counters[c].increment(g)
Increment(c, g) ==
    /\ nops < MaxOps
    /\ counters' = [counters EXCEPT ![c] = Genes_increment(@, g)]
    /\ incs' = [incs EXCEPT ![c][g] = @ + 1]
    /\ nops' = nops + 1
    /\ last' = [NoCall EXCEPT !.kind = "increment", !.dst = c, !.gene = g]
    /\ UNCHANGED merged
    /\ UNCHANGED othersGenes

\* counters[c].get(g); the counter is not changed.
Get(c, g) ==
    /\ last' = [NoCall EXCEPT !.kind = "get", !.dst = c, !.gene = g,
                              !.res = Genes_get(counters[c], g)]
    /\ UNCHANGED <<counters, incs, merged, nops>>
    /\ UNCHANGED othersGenes

\* counters[dst].merge_from(&counters[src]); the borrow rules force dst # src.
\* A failed assert! aborts: no further call is made.
MergeFrom(dst, src) ==
    /\ nops < MaxOps
    /\ dst # src
    /\ LET r == Genes_merge_from(counters[dst], counters[src])
       IN  /\ counters' = IF r.panic THEN counters
                          ELSE [counters EXCEPT ![dst] = r.data]
           /\ last' = [NoCall EXCEPT !.kind = IF r.panic THEN "panic" ELSE "merge",
                                     !.dst = dst, !.src = src,
                                     !.before = Genes_total(counters[dst]),
                                     !.added = Genes_total(counters[src])]
           /\ nops' = IF r.panic THEN MaxOps ELSE nops + 1
    /\ merged' = [merged EXCEPT ![dst] = TRUE]
    /\ UNCHANGED incs
    /\ UNCHANGED othersGenes

NextGenes ==
    \/ \E c \in CounterIds, g \in GeneIds : Increment(c, g)
    \/ \E c \in CounterIds, g \in GeneIds : Get(c, g)
    \/ \E dst \in CounterIds, src \in CounterIds : MergeFrom(dst, src)

SpecGenes == InitGenes /\ [][NextGenes]_vars

\* ------------------------------------------- normalization, called alone
\* Sequences of length at most n over the set S.
SeqsUpTo(S, n) == UNION {[1..k -> S] : k \in 0..n}

\* A Genes value as increment and merge_from leave it: unset or at least 1.
CountSlots == {EMPTY} \cup 1..MaxCount
\* A Genes value as Genes::from_slice accepts it: also 0.
AnySlots == {EMPTY} \cup 0..MaxCount

\* The arguments of the pub fn merge_normalized_from_counts; self is a fresh
\* NormGenes::default().
InitNorm ==
    /\ GenesStart
    /\ LedgerStart
    /\ SamStart
    /\ TableStart
    /\ nOther \in SeqsUpTo(CountSlots, MaxLen)
    /\ nNormalizer \in SeqsUpTo(AnySlots, MaxLen)
    /\ nRes = NormOk(<<>>)
    /\ nTotal = TotalOk(F(0))
    /\ nPc = "start"

\* entry.merge_normalized_from_counts(other, normalizer)
MergeNormalized ==
    /\ nPc = "start"
    /\ nRes' = NormGenes_merge_normalized_from_counts(nRes.data, nOther, nNormalizer)
    /\ nPc' = IF nRes'.panic THEN "aborted" ELSE "merged"
    /\ UNCHANGED <<nOther, nNormalizer, nTotal>>
    /\ UNCHANGED othersNorm

\* entry.total()
NormTotal ==
    /\ nPc = "merged"
    /\ nTotal' = NormGenes_total(nRes.data)
    /\ nPc' = IF nTotal'.panic THEN "aborted" ELSE "done"
    /\ UNCHANGED <<nOther, nNormalizer, nRes>>
    /\ UNCHANGED othersNorm

NextNorm ==
    \/ MergeNormalized
    \/ NormTotal

SpecNorm == InitNorm /\ [][NextNorm]_vars

\* ------------------------------------------------- the taxon ledger
\* The weights handed to the ledger: 1.0 (get_gene_leaks) and a fraction
\* 1.0 / total (get_normalized_gene_leaks).
Half == FDivInt(1, 2)
Weights == {F(1), Half}

InitLedger == GenesStart /\ NormStart /\ LedgerStart /\ SamStart /\ TableStart

\* leaks.count_correct(taxon, gene, w)
CountCorrect(taxon, gene, w) ==
    /\ lops < MaxLedgerOps
    /\ species' = GeneLeaks_count_correct(species, taxon, gene, w)
    /\ lops' = lops + 1
    /\ ranking' = NoRanking
    /\ touched' = [touched EXCEPT ![taxon] = @ \cup {gene}]
    /\ UNCHANGED othersLedger

\* leaks.count_incorrect(taxon, gene, incoming, w)
CountIncorrect(taxon, gene, incoming, w) ==
    /\ lops < MaxLedgerOps
    /\ species' = GeneLeaks_count_incorrect(species, taxon, gene, incoming, w)
    /\ lops' = lops + 1
    /\ ranking' = NoRanking
    /\ touched' = [touched EXCEPT ![taxon] = @ \cup {gene}]
    /\ UNCHANGED othersLedger

\* leaks.top_incoming(): the HashMap yields its entries in some order iter.
TopIncoming(iter) ==
    /\ ranking' = [done |-> TRUE, iter |-> iter,
                   order |-> GeneLeaks_top_incoming(species, iter)]
    /\ UNCHANGED <<species, lops, touched>>
    /\ UNCHANGED othersLedger

NextLedger ==
    \/ \E t \in Taxa, g \in GeneIds, w \in Weights : CountCorrect(t, g, w)
    \/ \E t \in Taxa, g \in GeneIds, i \in BOOLEAN, w \in Weights :
          CountIncorrect(t, g, i, w)
    \/ \E iter \in IterOrders(DOMAIN species) : TopIncoming(iter)

SpecLedger == InitLedger /\ [][NextLedger]_vars

\* ------------------------------------------- the accounting passes
\* Leakage::from_sam, get_species_total and get_gene_leaks are independent
\* loops over the same record stream; they are advanced together, item by
\* item. get_normalized_gene_leaks reads the stream again once
\* get_species_total has returned (main of mask_genes).
Init == GenesStart /\ NormStart /\ LedgerStart /\ SamStart /\ TableStart

\* iter.next() yields Some(item) to each of the three single-pass loops.
Read(item) ==
    /\ ~eof
    /\ Len(input) < MaxRecs
    /\ input' = Append(input, item)
    /\ leak' = FromSamStep(leak, item)
    /\ tot' = SpeciesTotalStep(tot, item)
    /\ raw' = GeneLeaksStep(raw, item)
    /\ UNCHANGED <<eof, nrm, npos>>
    /\ UNCHANGED othersSam

\* iter.next() yields None: a loop still running returns its result.
Finish(st) == IF st.pc = "run" THEN [st EXCEPT !.pc = "done"] ELSE st

Eof ==
    /\ ~eof
    /\ eof' = TRUE
    /\ leak' = Finish(leak)
    /\ tot' = Finish(tot)
    /\ raw' = Finish(raw)
    /\ UNCHANGED <<input, nrm, npos>>
    /\ UNCHANGED othersSam

\* One iteration of get_normalized_gene_leaks(&args, &total).
NormRead ==
    /\ eof
    /\ tot.pc = "done"
    /\ nrm.pc = "run"
    /\ npos < Len(input)
    /\ nrm' = NormalizedStep(nrm, tot.map, input[npos + 1])
    /\ npos' = npos + 1
    /\ UNCHANGED <<input, eof, leak, tot, raw>>
    /\ UNCHANGED othersSam

\* The second pass reaches the end of the stream.
NormEof ==
    /\ eof
    /\ tot.pc = "done"
    /\ nrm.pc = "run"
    /\ npos = Len(input)
    /\ nrm' = Finish(nrm)
    /\ UNCHANGED <<input, eof, leak, tot, raw, npos>>
    /\ UNCHANGED othersSam

Next ==
    \/ \E item \in Records : Read(item)
    \/ Eof
    \/ NormRead
    \/ NormEof

Spec == Init /\ [][Next]_vars

\* The passes as functions of a whole stream: the loop run over every item,
\* then the return at the end of the stream.
RECURSIVE FromSamLoop(_, _, _)
FromSamLoop(st, items, i) ==
    IF i > Len(items) THEN Finish(st)
    ELSE FromSamLoop(FromSamStep(st, items[i]), items, i + 1)

Leakage_from_sam(items) == FromSamLoop(Running, items, 1)

RECURSIVE SpeciesTotalLoop(_, _, _)
SpeciesTotalLoop(st, items, i) ==
    IF i > Len(items) THEN Finish(st)
    ELSE SpeciesTotalLoop(SpeciesTotalStep(st, items[i]), items, i + 1)

get_species_total(items) == SpeciesTotalLoop(Running, items, 1)

RECURSIVE GeneLeaksLoop(_, _, _)
GeneLeaksLoop(st, items, i) ==
    IF i > Len(items) THEN Finish(st)
    ELSE GeneLeaksLoop(GeneLeaksStep(st, items[i]), items, i + 1)

get_gene_leaks(items) == GeneLeaksLoop(Running, items, 1)

RECURSIVE NormalizedLoop(_, _, _, _)
NormalizedLoop(st, totals, items, i) ==
    IF i > Len(items) THEN Finish(st)
    ELSE NormalizedLoop(NormalizedStep(st, totals, items[i]), totals, items, i + 1)

get_normalized_gene_leaks(items, total_counts) ==
    NormalizedLoop(Running, total_counts, items, 1)

\* ------------------------------------- the pairwise table, saved and loaded
InitTable == GenesStart /\ NormStart /\ LedgerStart /\ SamStart /\ TableStart

\* Leakage::from_sam files one counted record from taxon `from`, assigned
\* to gene `gene` of taxon `to`.
File(from, to, gene) ==
    /\ ~saved.written
    /\ filed < MaxFiled
    /\ table' = Put(table, <<from, to>>,
                    Genes_increment(GenesOrDefault(table, <<from, to>>), gene))
    /\ filed' = filed + 1
    /\ outgoing' = NotCalled
    /\ normalized' = NotCalled
    /\ UNCHANGED <<saved, loaded>>
    /\ UNCHANGED othersTable

\* Every entry is written as one line, in the map's iteration order. The
\* dump consumes the map (into_iter), so no derived result is held.
Save(iter) ==
    /\ ~saved.written
    /\ ~outgoing.done
    /\ ~normalized.done
    /\ saved' = [written |-> TRUE,
                 lines |-> [i \in 1..Len(iter) |->
                               TableLine(iter[i][1], iter[i][2], table[iter[i]])]]
    /\ UNCHANGED <<table, filed, loaded, outgoing, normalized>>
    /\ UNCHANGED othersTable

\* Leakage::load(&args) on the saved file.
Load ==
    /\ saved.written
    /\ loaded.pc = "idle"
    /\ loaded' = Leakage_load(saved.lines)
    /\ UNCHANGED <<table, filed, saved, outgoing, normalized>>
    /\ UNCHANGED othersTable

\* leakage.total_outgoing() on the table in memory; &self leaves the table
\* as it is.
TotalOutgoing(iter) ==
    /\ ~saved.written
    /\ outgoing' = [done |-> TRUE, res |-> Leakage_total_outgoing(table, iter)]
    /\ UNCHANGED <<table, filed, saved, loaded, normalized>>
    /\ UNCHANGED othersTable

\* leakage.normalize_incoming() on the table (main of pairwise_leakage).
NormalizeIncoming(iter) ==
    /\ ~saved.written
    /\ normalized' = [done |-> TRUE,
                      res |-> Leakage_normalize_incoming(table, iter)]
    /\ UNCHANGED <<table, filed, saved, loaded, outgoing>>
    /\ UNCHANGED othersTable

NextTable ==
    \/ \E from \in Taxa, to \in Taxa, g \in GeneIds : File(from, to, g)
    \/ \E iter \in IterOrders(DOMAIN table) : Save(iter)
    \/ Load
    \/ \E iter \in IterOrders(DOMAIN table) : TotalOutgoing(iter)
    \/ \E iter \in IterOrders(DOMAIN table) : NormalizeIncoming(iter)

SpecTable == InitTable /\ [][NextTable]_vars

\* ------------------------------------------------------------ claims
\* C1: after any sequence of increment calls on a counter that started
\* empty, get(g) returns Some(number of increment(g) calls) when that number
\* is at least 1 and None otherwise - never zero, never a failure - also for
\* a g larger than every gene incremented so far.
C1_GetCountsIncrements ==
    (last.kind = "get" /\ ~merged[last.dst]) =>
        last.res = IF incs[last.dst][last.gene] >= 1
                   THEN Some(incs[last.dst][last.gene])
                   ELSE None

\* The records an accounting pass counts: aligned, mapq at least min_mapq.
Counted(item) == item.ok /\ item.aligned /\ item.mapq >= MinMapq

\* The last item handed to the single-pass loops, and to the second pass.
LastRead == input'[Len(input')]
ReadStep == Len(input') = Len(input) + 1
NormItem == input[npos + 1]
NormReadStep == npos' = npos + 1

\* C2: correctly assigned records are never filed into the Pairwise Leak
\* Table built by from_sam: every key and every count of the table stems
\* from mis-assigned records only.
MisassignedTo(from, to, gene) ==
    {i \in 1..Len(input) :
        /\ Counted(input[i])
        /\ ~Correct(input[i])
        /\ input[i].qt = from /\ input[i].rt = to /\ input[i].rg = gene}

C2_OnlyMisassignmentsFiled ==
    leak.pc # "panic" =>
        \A key \in DOMAIN leak.map :
            /\ \E g \in RecGenes : MisassignedTo(key[1], key[2], g) # {}
            /\ \A g \in RecGenes :
                 LET n == Cardinality(MisassignedTo(key[1], key[2], g))
                 IN  Genes_get(leak.map[key], g) \in
                        (IF n = 0 THEN {None, PanicOpt} ELSE {Some(n)})

\* C3: saving every entry as "from TAB to TAB <Genes Display>" and loading
\* the lines again gives the same pair keys and, for every key and every
\* gene id (gene 0 included), the same set/unset state and the same count.
SlotAt(data, gene) == IF gene < Len(data) THEN data[gene + 1] ELSE EMPTY

C3_RoundTrip ==
    loaded.pc # "idle" =>
        /\ loaded.pc = "done"
        /\ DOMAIN loaded.map = DOMAIN table
        /\ \A key \in DOMAIN table : \A g \in GeneIds :
              SlotAt(loaded.map[key], g) = SlotAt(table[key], g)

\* C4: in the ledger built by get_gene_leaks, for every (taxon, gene),
\* correct = counted records with query = reference = (taxon, gene),
\* incoming = counted incorrect records with reference (taxon, gene),
\* outgoing = counted incorrect records with query (taxon, gene), whatever
\* the order in which the gene ids of a taxon are touched.
LeaksAt(sp, taxon, gene) ==
    IF taxon \in DOMAIN sp /\ gene < Len(sp[taxon]) /\ sp[taxon][gene + 1].some
    THEN sp[taxon][gene + 1]
    ELSE NoLeaks

CountWhere(P(_)) == Cardinality({i \in 1..Len(input) : Counted(input[i]) /\ P(input[i])})

C4_RawLedgerCounts ==
    (raw.pc = "done" /\ \A i \in 1..Len(input) : input[i].ok) =>
        \A taxon \in Taxa, gene \in RecGenes :
            LET l == LeaksAt(raw.map, taxon, gene)
                IsQ(x) == x.qt = taxon /\ x.qg = gene
                IsR(x) == x.rt = taxon /\ x.rg = gene
                Here(x) == IsQ(x) /\ IsR(x)
                In(x) == ~Correct(x) /\ IsR(x)
                Out(x) == ~Correct(x) /\ IsQ(x)
            IN  /\ l.correct = F(CountWhere(Here))
                /\ l.incoming = F(CountWhere(In))
                /\ l.outgoing = F(CountWhere(Out))

\* C5: a normalizer slot that is zero, unset or absent (beyond the
\* normalizer's length) for a gene set in the counts yields a zero
\* contribution for that gene: no abort, no NaN or infinity stored, and
\* total() of the result finite and non-negative.
BadNormalizerSlot(i) ==
    /\ i <= Len(nOther)
    /\ nOther[i] # EMPTY
    /\ (i > Len(nNormalizer) \/ nNormalizer[i] = EMPTY \/ nNormalizer[i] = 0)

C5_UndefinedRatioIsZero ==
    ((\E i \in 1..MaxLen : BadNormalizerSlot(i)) /\ nPc # "start") =>
        /\ nPc # "aborted"
        /\ ~nRes.panic
        /\ \A i \in 1..Len(nRes.data) : IsFinite(nRes.data[i])
        /\ \A i \in 1..MaxLen :
              BadNormalizerSlot(i) => (i <= Len(nRes.data) /\ nRes.data[i] = F(0))
        /\ nPc = "done" =>
              (~nTotal.panic /\ IsFinite(nTotal.val) /\ nTotal.val.v >= 0)

\* C6: after a.merge_from(b), a.total() is a.total() before the merge plus
\* b.total(), for disjoint and for overlapping gene sets.
C6_MergeTotalAdds ==
    last.kind = "merge" =>
        Genes_total(counters[last.dst]) = last.before + last.added

\* A merge of two non-empty counters that share a set gene has happened.
C6_Witness ==
    /\ last.kind = "merge"
    /\ last.before > 0
    /\ last.added > 0
    /\ \E g \in GeneIds :
          /\ g < Len(counters[last.src])
          /\ counters[last.src][g + 1] # EMPTY
          /\ counters[last.dst][g + 1] > counters[last.src][g + 1]
    /\ \E g \in GeneIds :
          /\ g < Len(counters[last.dst])
          /\ counters[last.dst][g + 1] # EMPTY
          /\ (g >= Len(counters[last.src]) \/ counters[last.src][g + 1] = EMPTY)

\* C7: for every reachable taxon ledger and every threshold t,
\* num_good_genes(t) + num_leaked_on_genes(t) = num_genes(), and
\* num_good_genes(t) does not underflow.
Thresholds == {F(-1), F(0), Half, F(1), F(2), Inf, NegInf, NaN}

C7_GoodPlusLeakedIsAll ==
    \A taxon \in DOMAIN species : \A t \in Thresholds :
        LET good == Species_num_good_genes(species[taxon], t)
        IN  /\ ~good.underflow
            /\ good.val + Species_num_leaked_on_genes(species[taxon], t)
                 = Species_num_genes(species[taxon])

\* A sparse ledger with a leaked-on gene, a good gene and a None slot.
C7_Witness ==
    \E taxon \in DOMAIN species :
        /\ Species_num_leaked_on_genes(species[taxon], F(0)) >= 1
        /\ Species_num_good_genes(species[taxon], F(0)).val >= 1
        /\ Species_num_leaked_on_genes(species[taxon], Half) = 0
        /\ \E i \in 1..Len(species[taxon]) : ~species[taxon][i].some

\* C8: a record that is unaligned or whose mapq is strictly below min_mapq
\* changes no counter in any pass (from_sam, get_species_total,
\* get_gene_leaks, get_normalized_gene_leaks), correct or not; a record
\* whose mapq equals min_mapq is counted by every pass that is running.
C8_Frame ==
    /\ (ReadStep /\ LastRead.ok /\ Skipped(LastRead)) =>
          (leak' = leak /\ tot' = tot /\ raw' = raw)
    /\ (NormReadStep /\ NormItem.ok /\ Skipped(NormItem)) => nrm' = nrm
    /\ (ReadStep /\ LastRead.ok /\ LastRead.aligned /\ LastRead.mapq = MinMapq) =>
          /\ leak.pc = "run" => leak'.map # leak.map
          /\ tot.pc = "run" => tot'.map # tot.map
          /\ raw.pc = "run" => raw'.map # raw.map
    /\ (NormReadStep /\ NormItem.ok /\ NormItem.aligned /\ NormItem.mapq = MinMapq) =>
          nrm' # nrm

C8_SkippedRecordsChangeNothing == [][C8_Frame]_vars

\* Every pass has consumed a skipped correct record and a counted record.
C8_Witness ==
    /\ eof
    /\ npos = 2
    /\ leak.pc = "done" /\ tot.pc = "done" /\ raw.pc = "done" /\ nrm.pc = "done"
    /\ Skipped(input[1]) /\ input[1].aligned /\ Correct(input[1])
    /\ Counted(input[2]) /\ input[2].mapq = MinMapq
    /\ leak.map # <<>> /\ tot.map # <<>> /\ raw.map # <<>> /\ nrm.map # <<>>

\* C9: a malformed record does not end a pass: at the end of the run the
\* counters of every pass equal those for the same stream with the
\* malformed records removed, and no pass has aborted.
WellFormed(item) == item.ok

C9_MalformedRecordIsSkipped ==
    (eof /\ nrm.pc # "run") =>
        LET clean == SelectSeq(input, WellFormed)
        IN  /\ leak = Leakage_from_sam(clean)
            /\ tot = get_species_total(clean)
            /\ raw = get_gene_leaks(clean)
            /\ nrm = get_normalized_gene_leaks(clean, get_species_total(clean).map)

\* C10: top_incoming orders the taxa by num_leaked_on_genes(0) descending,
\* then total_incoming_leaks(0) descending, then taxon id ascending; taxa
\* whose total_incoming_leaks differ are never tied on the secondary key, so
\* the order does not depend on the map's iteration order.
RanksBefore(a, b) ==
    LET la == Species_num_leaked_on_genes(species[a], F(0))
        lb == Species_num_leaked_on_genes(species[b], F(0))
        ta == Species_total_incoming_leaks(species[a], F(0))
        tb == Species_total_incoming_leaks(species[b], F(0))
    IN  \/ la > lb
        \/ la = lb /\ FGt(ta, tb)
        \/ la = lb /\ FEq(ta, tb) /\ a < b

C10_RankingIsDeterministic ==
    ranking.done =>
        \A i, j \in 1..Len(ranking.order) :
            i < j => RanksBefore(ranking.order[i], ranking.order[j])

\* C11: num_genes() of a taxon equals the number of distinct gene ids ever
\* passed to add_correct or add_incorrect on it, in every order of gene ids:
\* touching a gene id below one already touched removes no gene.
C11_NumGenesCountsTouched ==
    \A taxon \in Taxa :
        Species_num_genes(EntryOrNew(species, taxon)) = Cardinality(touched[taxon])

\* C12: after get_species_total over a record sequence, the stored total of
\* every (taxon, gene) is the number of counted records whose query identity
\* is (taxon, gene), in every order of gene ids within a taxon; so the lookup
\* of query_total in get_normalized_gene_leaks finds a set, positive total
\* for every record it counts.
TotalAt(totals, taxon, gene) ==
    IF taxon \in DOMAIN totals /\ gene < Len(totals[taxon])
       /\ totals[taxon][gene + 1].some
    THEN totals[taxon][gene + 1]
    ELSE None

C12_SpeciesTotalExact ==
    (tot.pc = "done" /\ \A i \in 1..Len(input) : input[i].ok) =>
        /\ \A taxon \in Taxa, gene \in RecGenes :
              LET IsQ(x) == x.qt = taxon /\ x.qg = gene
                  n == CountWhere(IsQ)
              IN  TotalAt(tot.map, taxon, gene) = IF n = 0 THEN None ELSE Some(n)
        /\ \A i \in 1..Len(input) :
              Counted(input[i]) =>
                  LET query_total == LookupTotal(tot.map, input[i].qt, input[i].qg)
                  IN  ~query_total.panic /\ query_total.some /\ query_total.val > 0

\* The number of counted records of the stream whose query is (taxon, gene).
QueryCount(taxon, gene) ==
    Cardinality({i \in 1..Len(input) :
        Counted(input[i]) /\ input[i].qt = taxon /\ input[i].qg = gene})

\* C13: in get_normalized_gene_leaks an incorrect record credits
\* 1 / query_total(query taxon, query gene) to incoming of the reference
\* (taxon, gene) and 1 / reference_total(reference taxon, reference gene) to
\* outgoing of the query (taxon, gene): the outgoing denominator is the
\* total stored under the reference taxon. Stated for records both of whose
\* totals are stored exactly by get_species_total.
C13_Credit ==
    (/\ NormReadStep
     /\ Counted(NormItem)
     /\ ~Correct(NormItem)
     /\ QueryCount(NormItem.qt, NormItem.qg) > 0
     /\ QueryCount(NormItem.rt, NormItem.rg) > 0
     /\ TotalAt(tot.map, NormItem.qt, NormItem.qg)
           = Some(QueryCount(NormItem.qt, NormItem.qg))
     /\ TotalAt(tot.map, NormItem.rt, NormItem.rg)
           = Some(QueryCount(NormItem.rt, NormItem.rg)))
    => nrm' = [nrm EXCEPT !.map =
                  GeneLeaks_count_incorrect(
                      GeneLeaks_count_incorrect(nrm.map, NormItem.rt, NormItem.rg,
                          TRUE, FDivInt(1, QueryCount(NormItem.qt, NormItem.qg))),
                      NormItem.qt, NormItem.qg, FALSE,
                      FDivInt(1, QueryCount(NormItem.rt, NormItem.rg)))]

C13_OutgoingDividesByReferenceTotal == [][C13_Credit]_vars

\* C14: when a total looked up by get_normalized_gene_leaks (query total or
\* reference total) is missing for the taxon, unset for the gene, beyond the
\* stored gene range, or zero, the pass takes a special-case branch: it does
\* not abort and no accumulator receives an infinite or NaN credit.
C14_UndefinedTotalIsSpecialCased ==
    /\ nrm.pc # "panic"
    /\ \A taxon \in DOMAIN nrm.map : \A i \in 1..Len(nrm.map[taxon]) :
          /\ IsFinite(nrm.map[taxon][i].correct)
          /\ IsFinite(nrm.map[taxon][i].incoming)
          /\ IsFinite(nrm.map[taxon][i].outgoing)

\* The slot of a gene under a pair key of the table: unset when the key or
\* the slot is absent.
PairSlot(map, key, gene) ==
    IF key \in DOMAIN map THEN SlotAt(map[key], gene) ELSE EMPTY

\* C15: a counted record processed by Leakage::from_sam increments exactly
\* one slot by 1, the slot of the reference gene id under the ordered key
\* (query taxon, reference taxon); every other slot and every other key is
\* unchanged, and (A, B) and (B, A) are distinct entries.
C15_Frame ==
    (ReadStep /\ Counted(LastRead) /\ leak.pc = "run") =>
        LET key == <<LastRead.qt, LastRead.rt>>
            old == PairSlot(leak.map, key, LastRead.rg)
        IN  /\ leak'.pc = "run"
            /\ DOMAIN leak'.map = DOMAIN leak.map \cup {key}
            /\ \A k \in DOMAIN leak.map \ {key} : leak'.map[k] = leak.map[k]
            /\ PairSlot(leak'.map, key, LastRead.rg)
                  = IF old = EMPTY THEN 1 ELSE old + 1
            /\ \A g \in GeneIds \ {LastRead.rg} :
                  PairSlot(leak'.map, key, g) = PairSlot(leak.map, key, g)

C15_OneSlotPerCountedRecord == [][C15_Frame]_vars

\* Two counted records between the same two taxa in opposite directions and
\* with query gene and reference gene different: two entries, one count each.
C15_Witness ==
    /\ leak.pc = "run"
    /\ Len(input) = 2
    /\ input[1].qg # input[1].rg
    /\ DOMAIN leak.map = {<<1, 2>>, <<2, 1>>}
    /\ Genes_get(leak.map[<<1, 2>>], 1) = Some(1)
    /\ Genes_get(leak.map[<<2, 1>>], 0) = Some(1)

\* The sum of the set counts of a gene over the pair keys (from, to), to in S.
RECURSIVE OutgoingSum(_, _, _)
OutgoingSum(S, from, gene) ==
    IF S = {} THEN 0
    ELSE LET to == CHOOSE x \in S : TRUE
         IN  Max(PairSlot(table, <<from, to>>, gene), 0)
             + OutgoingSum(S \ {to}, from, gene)

\* C16: total_outgoing returns a map whose keys are exactly the 'from' taxa
\* of the table's pair keys; for each of them and every gene the value is
\* the sum of the set counts of that gene over all pairs with that 'from',
\* unset if no such pair has the gene set. The result is the same for every
\* iteration order of the table.
C16_TotalOutgoingSums ==
    outgoing.done =>
        /\ ~outgoing.res.panic
        /\ DOMAIN outgoing.res.map = {key[1] : key \in DOMAIN table}
        /\ \A from \in DOMAIN outgoing.res.map : \A g \in GeneIds :
              SlotAt(outgoing.res.map[from], g) =
                  IF \A to \in Taxa : PairSlot(table, <<from, to>>, g) = EMPTY
                  THEN EMPTY
                  ELSE OutgoingSum(Taxa, from, g)
        /\ \A iter \in IterOrders(DOMAIN table) :
              Leakage_total_outgoing(table, iter) = outgoing.res

\* Two pairs with the same 'from' share a set gene, a second 'from' exists.
C16_Witness ==
    /\ outgoing.done
    /\ DOMAIN table = {<<1, 1>>, <<1, 2>>, <<2, 1>>}
    /\ \E g \in GeneIds :
          /\ PairSlot(table, <<1, 1>>, g) = 1
          /\ PairSlot(table, <<1, 2>>, g) = 1
          /\ SlotAt(outgoing.res.map[1], g) = 2
    /\ SlotAt(outgoing.res.map[2], 0) = 1

\* C17: merge_from is associative and commutative elementwise on counters
\* built by increment (and merge_from): merging b then c into a gives the
\* same set/unset state and count at every gene id as merging (b merged
\* with c) into a, merging b into a gives the same as merging a into b, and
\* a slot unset in the merged-in counter is left untouched. The three
\* counters of a state are a, b and c; the calls treat the counters alike,
\* so every permutation of a reachable state is reachable too.
SameSlots(x, y) == \A g \in GeneIds : SlotAt(x, g) = SlotAt(y, g)

C17_MergeAssociativeCommutative ==
        LET a == counters[1]
            b == counters[2]
            c == counters[3]
            ab == Genes_merge_from(a, b)
            ba == Genes_merge_from(b, a)
            bc == Genes_merge_from(b, c)
            ab_c == Genes_merge_from(ab.data, c)
            a_bc == Genes_merge_from(a, bc.data)
        IN  /\ ~ab.panic /\ ~ba.panic /\ ~bc.panic /\ ~ab_c.panic /\ ~a_bc.panic
            /\ SameSlots(ab_c.data, a_bc.data)
            /\ SameSlots(ab.data, ba.data)
            /\ \A g \in GeneIds :
                  SlotAt(b, g) = EMPTY => SlotAt(ab.data, g) = SlotAt(a, g)

\* Three non-empty counters that share a set gene, one of them longer than
\* the others and with an unset slot.
C17_Witness ==
    /\ \A i \in CounterIds : SlotAt(counters[i], 0) # EMPTY
    /\ Len(counters[1]) = 1
    /\ Len(counters[3]) = 3
    /\ SlotAt(counters[3], 1) = EMPTY

\* C18: in normalize_incoming on a table built by from_sam, for every pair
\* key (from, to) and every gene set in its counter, total_outgoing[from]
\* exists, has the gene in range and set, with a value of at least the
\* pair's count: no lookup, index or assertion fails and every ratio is
\* positive and at most 1.
C18_NormalizerCoversEveryPair ==
    normalized.done => \A iter \in IterOrders(DOMAIN table) :
        LET total_out == Leakage_total_outgoing(table, iter)
        IN  /\ ~total_out.panic
            /\ ~normalized.res.panic
            /\ \A key \in DOMAIN table : \A g \in GeneIds :
                  PairSlot(table, key, g) # EMPTY =>
                      /\ key[1] \in DOMAIN total_out.map
                      /\ g < Len(total_out.map[key[1]])
                      /\ total_out.map[key[1]][g + 1] # EMPTY
                      /\ total_out.map[key[1]][g + 1] >= PairSlot(table, key, g)
                      /\ PairSlot(table, key, g) >= 1
                      /\ LET res == FDivInt(PairSlot(table, key, g),
                                            total_out.map[key[1]][g + 1])
                         IN  FGt(res, F(0)) /\ FGe(F(1), res)
            /\ DOMAIN normalized.res.map = {key[2] : key \in DOMAIN table}

\* A table where one taxon leaks the same gene to two taxa (ratios 1/2) and
\* one of them also receives it from itself (sum 3/2) has been normalized.
C18_Witness ==
    /\ normalized.done
    /\ ~normalized.res.panic
    /\ DOMAIN table = {<<1, 1>>, <<1, 2>>, <<2, 2>>}
    /\ \E g \in GeneIds \ {0} :
          /\ g < Len(normalized.res.map[1])
          /\ normalized.res.map[1][g + 1] = FDivInt(1, 2)
          /\ normalized.res.map[2][g + 1] = FAdd(FDivInt(1, 2), F(1))

\* A counter as the implementation means to keep it: every slot unset or at
\* least 1, and the last slot set.
SlotsOk(data) ==
    /\ \A i \in 1..Len(data) : data[i] = EMPTY \/ data[i] >= 1
    /\ data # <<>> => data[Len(data)] # EMPTY

\* C19: after any sequence of increment and merge_from calls from empty
\* counters, every slot is the unset sentinel or at least 1, the last slot
\* of a non-empty counter is set, no call shortens a counter, and no
\* assertion inside merge_from fails.
C19_Step ==
    /\ \A i \in CounterIds :
          /\ SlotsOk(counters'[i])
          /\ Len(counters'[i]) >= Len(counters[i])
    /\ last'.kind # "panic"

C19_SlotsUnsetOrPositive == [][C19_Step]_vars

\* A merge has left its target with three slots, one of them unset and one
\* holding a sum.
C19_Witness ==
    /\ last.kind = "merge"
    /\ Len(counters[last.dst]) = 3
    /\ \E g \in GeneIds : SlotAt(counters[last.dst], g) = EMPTY
    /\ \E g \in GeneIds : SlotAt(counters[last.dst], g) >= 2

====
